---- MODULE Spec2Model ----
(***************************************************************************)
(* A model of boreth: the Bor block executor with its state-sync relay     *)
(* (crates/node/src/executor), the Heimdall client (crates/bor/src/        *)
(* heimdall/client.rs and the async prototype in src/lib.rs) and the Bor   *)
(* sprint configuration (crates/bor/src/config.rs).                        *)
(***************************************************************************)
EXTENDS Integers, Sequences, FiniteSets, TLC

(***************************************************************************)
(* Bounds of the model.                                                    *)
(***************************************************************************)
\* Event ids served by the checkpoint layer are 1..MaxId.
MaxId == 2
\* The page size of the event list.  The source sets STATE_FETCH_LIMIT = 50
\* (client.rs:13, lib.rs:7); the model scales it down so that full pages occur.
STATE_FETCH_LIMIT == 2
\* The checkpoint layer answers at most MaxPages full pages in one call.
MaxPages == 1
\* Blocks are numbered 0..MaxBlock.
MaxBlock == 2
\* A block holds at most MaxTxs ordinary transactions.
MaxTxs == 2
\* The block gas limit, and the largest gas limit of a transaction.
MaxGas == 2
\* Sprint lengths stored in a sprint table are 0..MaxSprint.
MaxSprint == 3
\* At most MaxReads stand-alone cursor reads are made on one EVM.
MaxReads == 3
\* The lengths of the parts of a header's extra data.  The source takes
\* them from crate::consensus::constants; the model takes short lengths.
EXTRA_VANITY_LENGTH == 2
EXTRA_SEAL_LENGTH == 3
VALIDATOR_HEADER_BYTES_LENGTH == 2
\* The integer types at a scaled width: the greatest u64 and the greatest
\* uint256 of the model.
U64_MAX == 15
U256_MAX == 31

VARIABLES
    \* ---- HeimdallClient::fetch_state_sync_events (both implementations)
    f_pc,            \* "idle" | "lib_loop" | "returned"
    f_impl,          \* "none" | "client" (crates/bor) | "lib" (src/lib.rs)
    f_from_id,       \* lib.rs: the loop's `mut from_id`
    f_to_time,       \* the to_time argument
    event_records,   \* lib.rs: the records accumulated by the loop
    requests,        \* the GET requests issued by the current call, in order
    pages,           \* the responses received by the current call, in order
    fetch_result,    \* the Result the call returned
    checkpoint       \* the ids of the events the checkpoint layer holds

fetch_vars == <<f_pc, f_impl, f_from_id, f_to_time, event_records, requests,
                pages, fetch_result, checkpoint>>

VARIABLES
    \* ---- configuration, fixed at construction
    executor,        \* which BorBlockExecutor: "executor_rs" | "config_rs"
    sprint,          \* BorConfig.sprint: activation block -> sprint length
    spurious_dragon, \* the chain spec's activation of the fork gating to_time
    \* ---- BorBlockExecutor
    pc,              \* position of the block's execution
    block,           \* evm.block(): number, timestamp, gas_limit
    txs_left,        \* ordinary transactions the iterator still holds
    receipts,        \* self.receipts: cumulative_gas_used of each receipt
    gas_used,        \* self.gas_used
    evm,             \* the EVM state: the state receiver's lastStateId, the
                     \* events whose commitState took effect (synced), the
                     \* number of ordinary transactions committed (user)
    block_result,    \* what execute_block ended with: "none" | "Ok" | "Err" | "panic"
    \* ---- SystemCaller::apply_state_sync_contract_call
    last_state_id,   \* the cursor read
    to_time,         \* the to_time computed
    state_sync_events, \* the events the for loop still holds
    sync_result,     \* what the call returned: "none" | "Ok" | "Err"
    \* ---- history of the current block
    evm0,            \* the EVM state when the block started
    evm_sync0,       \* the EVM state when the state-sync step started
    sync_runs,       \* calls of apply_state_sync_contract_call
    trace,           \* "tx" | "span" | "read" | "commit": the steps of the
                     \* block that execute on the EVM, in order
    replayed,        \* the commitState transactions executed, with outcomes
    last_tx          \* the last ordinary transaction handed to the executor:
                     \* its gas limit, the gas it used, the result

config_vars == <<executor, sprint, spurious_dragon>>
block_vars == <<pc, block, txs_left, receipts, gas_used, evm, block_result>>
sync_vars == <<last_state_id, to_time, state_sync_events, sync_result>>
hist_vars == <<evm0, evm_sync0, sync_runs, trace, replayed, last_tx>>
exec_vars == <<config_vars, block_vars, sync_vars, hist_vars>>

VARIABLES
    \* ---- stand-alone calls of the configuration, the cursor read and the
    \* consensus checks
    sprint_query,    \* the last BorConfig query: block number and what
                     \* sprint_number and is_sprint_start gave for it
    reads,           \* the calls of last_state_sync_event_id made on evm, in
                     \* order: the state before and after, the value returned
    consensus_call,  \* the last BorConsensus call: function, arguments, result
    unit_call        \* the last call of a function without state: function,
                     \* arguments, result

call_vars == <<sprint_query, reads, consensus_call, unit_call>>

vars == <<fetch_vars, exec_vars, call_vars>>

\* No stand-alone call was made.
NoCall == [fn |-> "none"]

\* No ordinary transaction was handed to the executor.
NoTx == [gas_limit |-> 0, gas_used |-> 0, result |-> "none"]

(***************************************************************************)
(* Event records.                                                          *)
(***************************************************************************)
Ids == 1..MaxId

\* The arguments a caller passes to a stand-alone fetch.
FromIds == {0, 1}
ToTimes == {0, 1}
\* Event times, in seconds from the UNIX epoch: before it, at it.
Times == {0 - 1, 0}

\* crates/bor: EventRecordWithTime { event_record: EventRecord { id, .. }, time }
EventRecordWithTime == [id : Ids, time : Times]

\* src/lib.rs: EventRecordWithTime { id }
LibEventRecord == [id : Ids]

\* impl Ord for EventRecordWithTime: the ids alone are compared.
cmp(a, b) ==
    IF a.id < b.id THEN "Less" ELSE IF a.id > b.id THEN "Greater" ELSE "Equal"

\* #[derive(PartialEq, Eq)] on EventRecordWithTime: every field is compared,
\* the event record and the time.
eq(a, b) == a.id = b.id /\ a.time = b.time

\* A stand-alone comparison of two records, by cmp and by ==.
call_cmp ==
    /\ unit_call = NoCall
    /\ \E a \in EventRecordWithTime, b \in EventRecordWithTime :
          unit_call' = [fn |-> "cmp", a |-> a, b |-> b,
                        ordering |-> cmp(a, b), equal |-> eq(a, b)]
    /\ UNCHANGED <<fetch_vars, exec_vars, sprint_query, reads, consensus_call>>

\* #[derive(Ord)] on the one-field struct of src/lib.rs.
lib_cmp(a, b) ==
    IF a.id < b.id THEN "Less" ELSE IF a.id > b.id THEN "Greater" ELSE "Equal"

insert_sorted_before_equal(s, r) ==
    LET k == Cardinality({i \in 1..Len(s) : cmp(s[i], r) = "Less"})
    IN  SubSeq(s, 1, k) \o <<r>> \o SubSeq(s, k + 1, Len(s))

\* One insertion of a stable sort: r goes after every element that is not
\* Greater than it.
insert_sorted(s, r) ==
    LET k == Cardinality({i \in 1..Len(s) : cmp(s[i], r) # "Greater"})
    IN  SubSeq(s, 1, k) \o <<r>> \o SubSeq(s, k + 1, Len(s))

sort_unsorted(s) == s

\* Vec::sort(): a stable sort under cmp.
RECURSIVE sort(_)
sort(s) ==
    IF s = <<>> THEN <<>>
    ELSE insert_sorted(sort(SubSeq(s, 1, Len(s) - 1)), s[Len(s)])

lib_insert_sorted(s, r) ==
    LET k == Cardinality({i \in 1..Len(s) : lib_cmp(s[i], r) # "Greater"})
    IN  SubSeq(s, 1, k) \o <<r>> \o SubSeq(s, k + 1, Len(s))

RECURSIVE lib_sort(_)
lib_sort(s) ==
    IF s = <<>> THEN <<>>
    ELSE lib_insert_sorted(lib_sort(SubSeq(s, 1, Len(s) - 1)), s[Len(s)])

(***************************************************************************)
(* The checkpoint layer's answers to one GET.                              *)
(***************************************************************************)
SetMinId(S) == CHOOSE x \in S : \A y \in S : x <= y

RECURSIVE SeqsUpTo(_, _)
SeqsUpTo(S, n) ==
    IF n = 0 THEN {<<>>}
    ELSE LET shorter == SeqsUpTo(S, n - 1)
         IN  shorter \cup {Append(s, x) : s \in {t \in shorter : Len(t) = n - 1}, x \in S}

\* kind: "RequestError" (send() failed), "NoContent" (HTTP 204),
\* "Unsuccessful" (another non-2xx status), "BadJson" (the body does not
\* deserialize), "Null" (result absent), "List" (result is a list).
Response(kind, list) == [kind |-> kind, result |-> list]

NoDataResponses ==
    {Response(k, <<>>) : k \in {"RequestError", "NoContent", "Unsuccessful", "BadJson", "Null"}}

Responses ==
    NoDataResponses \cup
    {Response("List", l) : l \in SeqsUpTo(EventRecordWithTime, STATE_FETCH_LIMIT)}

LibResponses ==
    NoDataResponses \cup
    {Response("List", l) : l \in SeqsUpTo(LibEventRecord, STATE_FETCH_LIMIT)}

Request(from_id, to) ==
    [from_id |-> from_id, to_time |-> to, limit |-> STATE_FETCH_LIMIT]

Ok(events) == [tag |-> "Ok", events |-> events, err |-> "none"]
Err(e) == [tag |-> "Err", events |-> <<>>, err |-> e]
NoResult == [tag |-> "none", events |-> <<>>, err |-> "none"]

(***************************************************************************)
(* crates/bor/src/heimdall/client.rs: fetch_state_sync_events.             *)
(***************************************************************************)
client_fetch_result_errors_as_empty(resp) ==
    IF resp.kind = "List" THEN Ok(sort(resp.result)) ELSE Ok(<<>>)

\* What the blocking client returns for the answer to its one request.
client_fetch_result(resp) ==
    CASE resp.kind = "RequestError" -> Err("RequestError")
      [] resp.kind = "NoContent"    -> Err("NoResponse")
      [] resp.kind = "Unsuccessful" -> Err("UnsuccessfulResponse")
      [] resp.kind = "BadJson"      -> Err("RequestError")
      [] resp.kind = "Null"         -> Err("NoResponse")
      [] OTHER                      -> Ok(sort(resp.result))

\* The whole call: one GET, its answer, the result.
fetch_state_sync_events(from_id, to, resp) ==
    /\ requests' = <<Request(from_id, to)>>
    /\ pages' = <<resp>>
    /\ fetch_result' = client_fetch_result(resp)
    /\ f_impl' = "client"
    /\ f_to_time' = to
    /\ UNCHANGED <<f_from_id, event_records, checkpoint>>

\* A stand-alone call of the blocking client.
client_call ==
    /\ f_pc = "idle"
    /\ \E from_id \in FromIds, to \in ToTimes, resp \in Responses :
          fetch_state_sync_events(from_id, to, resp)
    /\ f_pc' = "returned"
    /\ UNCHANGED exec_vars
    /\ UNCHANGED call_vars

(***************************************************************************)
(* src/lib.rs: the paginating fetch_state_sync_events.                     *)
(***************************************************************************)
\* Entry: `let mut event_records = Vec::new();`
lib_call ==
    /\ f_pc = "idle"
    /\ \E from_id \in FromIds, to \in ToTimes :
          /\ f_from_id' = from_id
          /\ f_to_time' = to
    /\ event_records' = <<>>
    /\ requests' = <<>>
    /\ pages' = <<>>
    /\ fetch_result' = NoResult
    /\ f_impl' = "lib"
    /\ f_pc' = "lib_loop"
    /\ UNCHANGED checkpoint
    /\ UNCHANGED exec_vars
    /\ UNCHANGED call_vars

\* Whether the loop leaves (break) after this answer, without an error.
lib_breaks(resp) ==
    \/ resp.kind \in {"NoContent", "Null"}
    \/ resp.kind = "List" /\ Len(resp.result) < STATE_FETCH_LIMIT

lib_is_error(resp) == resp.kind \in {"RequestError", "Unsuccessful", "BadJson"}

lib_error(resp) ==
    IF resp.kind = "Unsuccessful" THEN Err("UnsuccessfulResponse") ELSE Err("RequestError")

lib_append_overwrite(records, resp) ==
    IF resp.kind = "List" THEN resp.result ELSE records

\* The records kept from one answer: `event_records.append(&mut results)`.
lib_append(records, resp) ==
    IF resp.kind = "List" THEN records \o resp.result ELSE records

lib_next_from_id_repeats(from_id) == from_id

\* `from_id += STATE_FETCH_LIMIT;`
lib_next_from_id(from_id) == from_id + STATE_FETCH_LIMIT

\* One iteration of the loop on the answer resp; on break, the sort and the
\* return.
lib_iteration(resp) ==
    /\ requests' = Append(requests, Request(f_from_id, f_to_time))
    /\ pages' = Append(pages, resp)
    /\ IF lib_is_error(resp)
       THEN /\ fetch_result' = lib_error(resp)
            /\ event_records' = event_records
            /\ f_from_id' = f_from_id
            /\ f_pc' = "returned"
       ELSE IF lib_breaks(resp)
       THEN /\ event_records' = lib_sort(lib_append(event_records, resp))
            /\ fetch_result' = Ok(event_records')
            /\ f_from_id' = f_from_id
            /\ f_pc' = "returned"
       ELSE /\ event_records' = lib_append(event_records, resp)
            /\ f_from_id' = lib_next_from_id(f_from_id)
            /\ fetch_result' = fetch_result
            /\ f_pc' = "lib_loop"
    /\ UNCHANGED <<f_impl, f_to_time, checkpoint>>
    /\ UNCHANGED exec_vars
    /\ UNCHANGED call_vars

\* One iteration of the loop, on any answer.
lib_loop ==
    /\ f_pc = "lib_loop"
    /\ \E resp \in LibResponses :
          \* the bounded checkpoint layer: the last page it may answer is short
          /\ (Len(pages) >= MaxPages =>
                ~(resp.kind = "List" /\ Len(resp.result) = STATE_FETCH_LIMIT))
          /\ lib_iteration(resp)

\* The ids a checkpoint layer may hold: up to two full pages of them, in
\* any subset, consecutive or not.
CheckpointIds == 1..(2 * STATE_FETCH_LIMIT)

RECURSIVE lowest(_, _)
\* The n lowest ids of S, ascending (all of S when it has fewer).
lowest(S, n) ==
    IF n = 0 \/ S = {} THEN <<>>
    ELSE <<[id |-> SetMinId(S)]>> \o lowest(S \ {SetMinId(S)}, n - 1)

\* The answer of a checkpoint layer that holds the events of the ids in
\* held to GET ..?from-id={from_id}&to-time={..}&limit={STATE_FETCH_LIMIT}:
\* the events of the lowest ids >= from_id, up to the limit.
served(held, from_id) ==
    Response("List", lowest({i \in held : i >= from_id}, STATE_FETCH_LIMIT))

\* No call issues more requests than this against a checkpoint layer that
\* holds ids of CheckpointIds, as long as each full page advances from_id.
MaxRequests == Cardinality(CheckpointIds) + 1

\* One iteration of the loop, answered by the checkpoint layer from the
\* events it holds.
lib_loop_served ==
    /\ f_pc = "lib_loop"
    /\ Len(requests) < MaxRequests
    /\ lib_iteration(served(checkpoint, f_from_id))

FetchInit ==
    /\ f_pc = "idle"
    /\ f_impl = "none"
    /\ f_from_id = 0
    /\ f_to_time = 0
    /\ event_records = <<>>
    /\ requests = <<>>
    /\ pages = <<>>
    /\ fetch_result = NoResult
    /\ checkpoint = {}

NextFetch == client_call \/ lib_call \/ lib_loop

\* The paginating fetch against a checkpoint layer holding any events.
PagingInit ==
    /\ f_pc = "idle"
    /\ f_impl = "none"
    /\ f_from_id = 0
    /\ f_to_time = 0
    /\ event_records = <<>>
    /\ requests = <<>>
    /\ pages = <<>>
    /\ fetch_result = NoResult
    /\ checkpoint \in SUBSET CheckpointIds

NextPaging == lib_call \/ lib_loop_served

(***************************************************************************)
(* crates/bor/src/config.rs: the sprint table.                             *)
(***************************************************************************)
SetMin(S) == CHOOSE x \in S : \A y \in S : x <= y

\* The loop of sprint_number over the BTreeMap, in ascending key order.
RECURSIVE sprint_scan(_, _, _, _)
sprint_scan(table, keys, block_number, acc) ==
    IF keys = {} THEN acc
    ELSE LET key == SetMin(keys)
         IN  sprint_scan(table, keys \ {key}, block_number,
                         IF block_number >= key THEN table[key] ELSE acc)

sprint_number_zero_defaults_to_one(table, block_number) ==
    LET found == sprint_scan(table, DOMAIN table, block_number, 0)
    IN  IF {k \in DOMAIN table : k <= block_number} = {}
        THEN [ok |-> FALSE, value |-> 0]
        ELSE [ok |-> TRUE, value |-> IF found = 0 THEN 1 ELSE found]

\* Result<u64, String>
sprint_number(table, block_number) ==
    LET found == sprint_scan(table, DOMAIN table, block_number, 0)
    IN  IF found = 0 THEN [ok |-> FALSE, value |-> 0]
        ELSE [ok |-> TRUE, value |-> found]

is_sprint_start_next_block(table, block_number) ==
    LET s == sprint_number(table, block_number)
    IN  IF s.ok THEN [panic |-> FALSE, value |-> ((block_number + 1) % s.value = 0)]
        ELSE [panic |-> TRUE, value |-> FALSE]

is_sprint_start_defaults_false(table, block_number) ==
    LET s == sprint_number(table, block_number)
    IN  [panic |-> FALSE, value |-> (s.ok /\ block_number % s.value = 0)]

\* bool, or the panic of the Err arm.
is_sprint_start(table, block_number) ==
    LET s == sprint_number(table, block_number)
    IN  IF s.ok THEN [panic |-> FALSE, value |-> (block_number % s.value = 0)]
        ELSE [panic |-> TRUE, value |-> FALSE]

SprintTables == {<<>>, 0 :> 2, 0 :> 3 @@ 1 :> 2}

\* Every BTreeMap<u64, u64> with keys in 0..MaxBlock and values in 0..MaxSprint.
BTreeMaps == UNION {[K -> 0..MaxSprint] : K \in SUBSET (0..MaxBlock)}

\* A stand-alone query of the sprint table for one block number.
query_sprint ==
    /\ sprint_query = NoCall
    /\ \E block_number \in 0..(MaxBlock + 1) :
          sprint_query' = [fn |-> "sprint",
                           block_number |-> block_number,
                           sprint_number |-> sprint_number(sprint, block_number),
                           is_sprint_start |-> is_sprint_start(sprint, block_number)]
    /\ UNCHANGED <<fetch_vars, exec_vars, reads, consensus_call, unit_call>>

\* The fork's activation in the chain spec, and the hardfork check on it.
ForkConditions ==
    {[set |-> FALSE, block |-> 0], [set |-> TRUE, block |-> 1]}

is_spurious_dragon_active_at_block(fork, block_number) ==
    fork.set /\ fork.block <= block_number

(***************************************************************************)
(* crates/node/src/executor/system_call.rs                                 *)
(***************************************************************************)
\* todo!(): the call panics.
check_and_apply_commit_span == "panic"

\* todo!(): the call panics.
calculate_state_delay(block_number) == "panic"

\* SystemTime::duration_since(UNIX_EPOCH)? in encode_state_sync_data.
encode_state_sync_data(event) ==
    IF event.time < 0 THEN [ok |-> FALSE, data |-> event]
    ELSE [ok |-> TRUE, data |-> event]

get_state_sync_tx_from_receiver(input) ==
    [caller |-> "state_receiver_contract", kind |-> "Call", to |-> "system_address",
     value |-> 0, gas_price |-> 0, nonce |-> 0, gas_limit |-> "u64::MAX / 2",
     data |-> input]

\* The TxEnv of a state-sync transaction.
get_state_sync_tx(input) ==
    [caller |-> "system_address", kind |-> "Call", to |-> "state_receiver_contract",
     value |-> 0, gas_price |-> 0, nonce |-> 0, gas_limit |-> "u64::MAX / 2",
     data |-> input]

\* The outcomes of an EVM execution: Err(_), or Ok with one of the results.
EvmOutcomes == {"Error", "Success", "Revert", "Halt"}

is_success_or_failure(outcome) == outcome # "Error"

\* The match on ExecutionResult: the Success arm.
is_success(outcome) == outcome = "Success"

\* The state after transact_commit(tx): the committing call applies the
\* call's state changes on success (the state receiver stores the event and
\* advances lastStateId to its id).
transact_commit(state, tx, outcome) ==
    IF outcome = "Success"
    THEN [state EXCEPT !.lastStateId = tx.data.id,
                       !.synced = Append(@, tx.data)]
    ELSE state

\* The return data of the state receiver's lastStateId(): well-formed with
\* the stored value, or not of the expected shape.
LastStateIdOutputs(state) ==
    {[shape_ok |-> TRUE, value |-> state.lastStateId], [shape_ok |-> FALSE, value |-> 0]}

\* Every return data of a call of lastStateId(): of the shape of one
\* uint256 with any value, or not of that shape.
ReturnData == [shape_ok : BOOLEAN, value : 0..U256_MAX]

decode_last_state_id_truncating(output) ==
    IF output.shape_ok
    THEN [ok |-> TRUE, value |-> output.value % (U64_MAX + 1), err |-> "none"]
    ELSE [ok |-> FALSE, value |-> 0, err |-> "SolDecodeError"]

\* decode_last_state_id: Result<u64, HeimdallError>.  abi_decode_returns
\* yields the uint256 or fails on the shape; try_into() yields the u64 or
\* fails when the value does not fit.
decode_last_state_id(output) ==
    IF ~output.shape_ok THEN [ok |-> FALSE, value |-> 0, err |-> "SolDecodeError"]
    ELSE IF output.value > U64_MAX
    THEN [ok |-> FALSE, value |-> 0, err |-> "SolDecodeError"]
    ELSE [ok |-> TRUE, value |-> output.value, err |-> "none"]

\* A stand-alone call of decode_last_state_id on any return data.
call_decode_last_state_id ==
    /\ unit_call = NoCall
    /\ \E data \in ReturnData :
          unit_call' = [fn |-> "decode_last_state_id",
                        data |-> data,
                        result |-> decode_last_state_id(data)]
    /\ UNCHANGED <<fetch_vars, exec_vars, sprint_query, reads, consensus_call>>

transact_system_call_commits(state) == [state EXCEPT !.user = @ + 1]

\* The state after evm.transact_system_call(..): the call returns the
\* result and the state changes, and commits nothing.
transact_system_call(state) == state

last_state_sync_event_id_result_defaults_zero(outcome, output) ==
    IF is_success(outcome) /\ decode_last_state_id(output).ok
    THEN decode_last_state_id(output)
    ELSE [ok |-> TRUE, value |-> 0, err |-> "none"]

\* What last_state_sync_event_id returns for the outcome of the call and
\* its return data: Result<u64, HeimdallError>.
last_state_sync_event_id_result(outcome, output) ==
    IF ~is_success(outcome) THEN [ok |-> FALSE, value |-> 0, err |-> "EVMError"]
    ELSE decode_last_state_id(output)

\* `let from_id = last_state_id;`
from_id_of(cursor) == cursor

sync_after_fetch_empty_is_error(res) ==
    IF res.tag = "Err" \/ res.events = <<>> THEN "return_err" ELSE "replay"

\* After the fetch: `?` on an error; the for loop over the events.
sync_after_fetch(res) ==
    IF res.tag = "Err" THEN "return_err"
    ELSE IF res.events = <<>> THEN "return_ok"
    ELSE "replay"

(***************************************************************************)
(* crates/node/src/executor/executor.rs and executor/config.rs             *)
(***************************************************************************)
Timestamps == {1, 2}

\* The block ends: execute_block returns r.
block_returns(r) ==
    /\ pc' = IF r = "Ok" THEN "done" ELSE IF r = "Err" THEN "failed" ELSE "panicked"
    /\ block_result' = r

\* apply_state_sync_contract_call is entered.
enter_state_sync ==
    /\ pc' = "sync_read"
    /\ sync_runs' = sync_runs + 1
    /\ evm_sync0' = evm
    /\ block_result' = block_result

\* apply_state_sync_contract_call returns r to the executor.  executor.rs:
\* `?`, then apply_post_execution_changes (finish).  config.rs:
\* apply_pre_execution_changes returns, the transactions follow.
state_sync_returns(r) ==
    /\ sync_result' = r
    /\ IF r = "Err" THEN block_returns("Err")
       ELSE IF executor = "config_rs" THEN pc' = "txs" /\ block_result' = block_result
       ELSE block_returns("Ok")

\* BorBlockExecutor::new for the block to execute, on the state the
\* earlier blocks left.
new_executor ==
    /\ pc = "idle"
    /\ \E ts \in Timestamps, n \in 0..MaxTxs :
          /\ block' = [block EXCEPT !.timestamp = ts]
          /\ txs_left' = n
    /\ receipts' = <<>>
    /\ gas_used' = 0
    /\ pc' = "pre"
    /\ block_result' = "none"
    /\ sync_result' = "none"
    /\ state_sync_events' = <<>>
    /\ evm0' = evm
    /\ evm_sync0' = evm
    /\ sync_runs' = 0
    /\ trace' = <<>>
    /\ replayed' = <<>>
    /\ last_tx' = NoTx
    /\ UNCHANGED <<config_vars, evm, last_state_id, to_time, fetch_vars>>
    /\ UNCHANGED call_vars

\* executor.rs: apply_pre_execution_changes is Ok(()).
apply_pre_execution_changes ==
    /\ pc = "pre"
    /\ executor = "executor_rs"
    /\ pc' = "txs"
    /\ UNCHANGED <<config_vars, block, txs_left, receipts, gas_used, evm, block_result,
                   sync_vars, hist_vars, fetch_vars>>
    /\ UNCHANGED call_vars

\* config.rs: apply_pre_execution_changes runs the state sync.
config_apply_pre_execution_changes ==
    /\ pc = "pre"
    /\ executor = "config_rs"
    /\ enter_state_sync
    /\ UNCHANGED <<config_vars, block, txs_left, receipts, gas_used, evm,
                   sync_vars, evm0, trace, replayed, fetch_vars,
                   last_tx>>
    /\ UNCHANGED call_vars

after_transaction_rerun_hook(exec) == IF exec = "config_rs" THEN "pre" ELSE "txs"

\* The for loop over the transactions goes on with the next one.
after_transaction(exec) == "txs"

exceeds_available_gas_never(tx_gas_limit, block_available_gas) == FALSE

\* `tx.tx().gas_limit() > block_available_gas`
exceeds_available_gas(tx_gas_limit, block_available_gas) ==
    tx_gas_limit > block_available_gas

\* execute_transaction_with_result_closure for the next transaction of the
\* loop, and the `?` of the loop on its error.
execute_transaction ==
    /\ pc = "txs"
    /\ txs_left > 0
    /\ \E tx_gas_limit \in 1..MaxGas, evm_ok \in BOOLEAN, tx_gas_used \in 1..MaxGas :
          LET block_available_gas == block.gas_limit - gas_used IN
          /\ tx_gas_used <= tx_gas_limit
          /\ IF exceeds_available_gas(tx_gas_limit, block_available_gas)
             THEN /\ block_returns("Err")
                  /\ last_tx' = [gas_limit |-> tx_gas_limit, gas_used |-> 0,
                                 result |-> "TransactionGasLimitMoreThanAvailableBlockGas"]
                  /\ UNCHANGED <<txs_left, receipts, gas_used, evm, trace>>
             ELSE IF ~evm_ok
             THEN /\ block_returns("Err")
                  /\ last_tx' = [gas_limit |-> tx_gas_limit, gas_used |-> 0,
                                 result |-> "EVM"]
                  /\ UNCHANGED <<txs_left, receipts, gas_used, evm, trace>>
             ELSE /\ gas_used' = gas_used + tx_gas_used
                  /\ receipts' = Append(receipts, gas_used')
                  /\ evm' = [evm EXCEPT !.user = @ + 1]
                  /\ trace' = Append(trace, "tx")
                  /\ txs_left' = txs_left - 1
                  /\ pc' = after_transaction(executor)
                  /\ block_result' = block_result
                  /\ last_tx' = [gas_limit |-> tx_gas_limit, gas_used |-> tx_gas_used,
                                 result |-> "Ok"]
    /\ UNCHANGED <<config_vars, block, sync_vars, evm0, evm_sync0, sync_runs,
                   replayed, fetch_vars>>
    /\ UNCHANGED call_vars

after_commit_span_ignores_failure(r) == "sync"

\* After check_and_apply_commit_span(..).map_err(..)?: the state sync on
\* Ok, the return of the error on Err ("panic" when the call panicked).
after_commit_span(r) == IF r = "Ok" THEN "sync" ELSE r

\* executor.rs, execute_block after the loop: the sprint check, the span
\* commit, the state sync, apply_post_execution_changes.
execute_block_after_transactions ==
    /\ pc = "txs"
    /\ txs_left = 0
    /\ executor = "executor_rs"
    /\ LET start == is_sprint_start(sprint, block.number) IN
       IF start.panic
       THEN block_returns("panic") /\ UNCHANGED <<sync_runs, evm_sync0, trace>>
       ELSE IF start.value
       THEN /\ trace' = Append(trace, "span")
            /\ IF after_commit_span(check_and_apply_commit_span) = "sync"
               THEN enter_state_sync
               ELSE /\ block_returns(after_commit_span(check_and_apply_commit_span))
                    /\ UNCHANGED <<sync_runs, evm_sync0>>
       ELSE block_returns("Ok") /\ UNCHANGED <<sync_runs, evm_sync0, trace>>
    /\ UNCHANGED <<config_vars, block, txs_left, receipts, gas_used, evm,
                   sync_vars, evm0, replayed, fetch_vars,
                   last_tx>>
    /\ UNCHANGED call_vars

\* config.rs: after the loop, finish; increment_balances may fail.
config_finish ==
    /\ pc = "txs"
    /\ txs_left = 0
    /\ executor = "config_rs"
    /\ \E increment_ok \in BOOLEAN :
          block_returns(IF increment_ok THEN "Ok" ELSE "Err")
    /\ UNCHANGED <<config_vars, block, txs_left, receipts, gas_used, evm,
                   sync_vars, hist_vars, fetch_vars>>
    /\ UNCHANGED call_vars

\* apply_state_sync_contract_call, to the fetch: the cursor read
\* (last_state_sync_event_id, a transact_system_call that commits nothing)
\* and the computation of to_time.
last_state_sync_event_id ==
    /\ pc = "sync_read"
    /\ trace' = Append(trace, "read")
    /\ \E outcome \in EvmOutcomes, output \in LastStateIdOutputs(evm) :
          LET read == last_state_sync_event_id_result(outcome, output) IN
          /\ reads' = Append(reads,
                 [before |-> evm, after |-> transact_system_call(evm),
                  outcome |-> outcome, output |-> output, result |-> read])
          /\ IF ~read.ok
             THEN /\ state_sync_returns("Err")
                  /\ UNCHANGED <<last_state_id, to_time>>
             ELSE /\ last_state_id' = read.value
                  /\ IF is_spurious_dragon_active_at_block(spurious_dragon, block.number)
                     THEN /\ block_returns(calculate_state_delay(block.number))
                          /\ UNCHANGED <<to_time, sync_result>>
                     ELSE /\ to_time' = block.timestamp
                          /\ pc' = "sync_fetch"
                          /\ UNCHANGED <<block_result, sync_result>>
    /\ evm' = transact_system_call(evm)
    /\ UNCHANGED <<config_vars, block, txs_left, receipts, gas_used,
                   state_sync_events, evm0, evm_sync0, sync_runs, replayed, fetch_vars,
                   last_tx>>
    /\ UNCHANGED <<sprint_query, consensus_call, unit_call>>

\* apply_state_sync_contract_call: the fetch of the events.
fetch_events ==
    /\ pc = "sync_fetch"
    /\ \E resp \in Responses :
          fetch_state_sync_events(from_id_of(last_state_id), to_time, resp)
    /\ LET next == sync_after_fetch(fetch_result') IN
       /\ state_sync_events' = fetch_result'.events
       /\ IF next = "replay"
          THEN pc' = "sync_replay" /\ UNCHANGED <<block_result, sync_result>>
          ELSE state_sync_returns(IF next = "return_ok" THEN "Ok" ELSE "Err")
    /\ UNCHANGED <<config_vars, block, txs_left, receipts, gas_used, evm,
                   last_state_id, to_time, hist_vars, f_pc>>
    /\ UNCHANGED call_vars

state_sync_accounting_adds_receipt(acc) ==
    [receipts |-> Append(acc.receipts, acc.gas_used + 1), gas_used |-> acc.gas_used + 1]

\* The match on the result of a system transaction: the Success arm drops
\* gas_used, gas_refunded, logs and output (`_`) and does nothing; the
\* executor's receipts and gas_used, acc, are left as they are.
state_sync_accounting(acc) == acc

\* apply_state_sync_contract_call: one iteration of the for loop.
replay_event ==
    /\ pc = "sync_replay"
    /\ LET event == Head(state_sync_events)
           data == encode_state_sync_data(event)
       IN
       IF ~data.ok
       THEN /\ state_sync_returns("Err")
            /\ UNCHANGED <<evm, state_sync_events, trace, replayed, receipts, gas_used>>
       ELSE \E outcome \in EvmOutcomes :
               LET tx == get_state_sync_tx(data.data)
                   acc == state_sync_accounting([receipts |-> receipts,
                                                 gas_used |-> gas_used])
               IN
               /\ evm' = transact_commit(evm, tx, outcome)
               /\ receipts' = acc.receipts
               /\ gas_used' = acc.gas_used
               /\ trace' = Append(trace, "commit")
               /\ replayed' = Append(replayed,
                                     [event |-> event, tx |-> tx, outcome |-> outcome])
               /\ IF ~is_success(outcome)
                  THEN /\ state_sync_returns("Err")
                       /\ UNCHANGED state_sync_events
                  ELSE /\ state_sync_events' = Tail(state_sync_events)
                       /\ IF state_sync_events' = <<>>
                          THEN state_sync_returns("Ok")
                          ELSE UNCHANGED <<pc, block_result, sync_result>>
    /\ UNCHANGED <<config_vars, block, txs_left,
                   last_state_id, to_time, evm0, evm_sync0, sync_runs, fetch_vars,
                   last_tx>>
    /\ UNCHANGED call_vars

ExecInit ==
    /\ executor \in {"executor_rs", "config_rs"}
    /\ sprint \in SprintTables
    /\ spurious_dragon \in ForkConditions
    /\ pc = "idle"
    /\ block \in [number : 0..MaxBlock, timestamp : {0}, gas_limit : {MaxGas}]
    /\ txs_left = 0
    /\ receipts = <<>>
    /\ gas_used = 0
    /\ evm \in [lastStateId : {0, 1}, synced : {<<>>}, user : {0}]
    /\ block_result = "none"
    /\ last_state_id = 0
    /\ to_time = 0
    /\ state_sync_events = <<>>
    /\ sync_result = "none"
    /\ evm0 = evm
    /\ evm_sync0 = evm
    /\ sync_runs = 0
    /\ trace = <<>>
    /\ replayed = <<>>
    /\ last_tx = NoTx

CallInit ==
    /\ sprint_query = NoCall
    /\ reads = <<>>
    /\ consensus_call = NoCall
    /\ unit_call = NoCall

Init == FetchInit /\ ExecInit /\ CallInit

\* The fetch functions alone, on any arguments.
InitFetch ==
    /\ FetchInit
    /\ executor = "executor_rs"
    /\ sprint = <<>>
    /\ spurious_dragon = [set |-> FALSE, block |-> 0]
    /\ pc = "idle"
    /\ block = [number |-> 0, timestamp |-> 0, gas_limit |-> MaxGas]
    /\ txs_left = 0
    /\ receipts = <<>>
    /\ gas_used = 0
    /\ evm = [lastStateId |-> 0, synced |-> <<>>, user |-> 0]
    /\ block_result = "none"
    /\ last_state_id = 0
    /\ to_time = 0
    /\ state_sync_events = <<>>
    /\ sync_result = "none"
    /\ evm0 = evm
    /\ evm_sync0 = evm
    /\ sync_runs = 0
    /\ trace = <<>>
    /\ replayed = <<>>
    /\ last_tx = NoTx
    /\ CallInit

\* The executor at rest, for the stand-alone calls.
ExecIdle ==
    /\ executor = "executor_rs"
    /\ spurious_dragon = [set |-> FALSE, block |-> 0]
    /\ pc = "idle"
    /\ block = [number |-> 0, timestamp |-> 0, gas_limit |-> MaxGas]
    /\ txs_left = 0
    /\ receipts = <<>>
    /\ gas_used = 0
    /\ block_result = "none"
    /\ last_state_id = 0
    /\ to_time = 0
    /\ state_sync_events = <<>>
    /\ sync_result = "none"
    /\ evm0 = evm
    /\ evm_sync0 = evm
    /\ sync_runs = 0
    /\ trace = <<>>
    /\ replayed = <<>>
    /\ last_tx = NoTx

\* A stand-alone call of last_state_sync_event_id on the EVM.
read_cursor ==
    /\ Len(reads) < MaxReads
    /\ \E outcome \in EvmOutcomes, output \in LastStateIdOutputs(evm) :
          /\ evm' = transact_system_call(evm)
          /\ reads' = Append(reads,
                 [before |-> evm, after |-> evm',
                  result |-> last_state_sync_event_id_result(outcome, output)])
    /\ UNCHANGED <<fetch_vars, config_vars, pc, block, txs_left, receipts, gas_used,
                   block_result, sync_vars, hist_vars, sprint_query, consensus_call,
                   unit_call>>

\* A commitState transaction executed on the EVM between two reads.
commit_state ==
    /\ Len(evm.synced) < MaxId
    /\ \E event \in EventRecordWithTime, outcome \in EvmOutcomes :
          /\ encode_state_sync_data(event).ok
          /\ evm' = transact_commit(evm,
                        get_state_sync_tx(encode_state_sync_data(event).data), outcome)
          /\ evm' # evm
    /\ UNCHANGED <<fetch_vars, config_vars, pc, block, txs_left, receipts, gas_used,
                   block_result, sync_vars, hist_vars, call_vars>>

\* The cursor read alone, on any state of the state receiver.
InitCursor ==
    /\ FetchInit
    /\ sprint = <<>>
    /\ evm \in [lastStateId : {0, 1}, synced : {<<>>}, user : {0}]
    /\ ExecIdle
    /\ CallInit

NextCursor == read_cursor \/ commit_state

(***************************************************************************)
(* crates/node/src/consensus/consensus.rs                                  *)
(***************************************************************************)
\* The header fields validate_block_pre_execution reads.  extra_data is
\* modelled by its length; gas_limit by where it lies about u64::MAX >> 1.
MixHashes == {"None", "Some(zero)", "Some(nonzero)"}
OmmersHashes == {"keccak256([])", "keccak256(rlp([]))", "other"}
GasLimits == {"0", "u64::MAX >> 1", "(u64::MAX >> 1) + 1"}
WithdrawalsRoots == {"None", "Some"}

Headers ==
    [number : 0..MaxBlock,
     timestamp : Timestamps,
     extra_data : 0..(EXTRA_VANITY_LENGTH + EXTRA_SEAL_LENGTH + VALIDATOR_HEADER_BYTES_LENGTH),
     mix_hash : MixHashes,
     ommers_hash : OmmersHashes,
     difficulty : {0, 1},
     gas_limit : GasLimits,
     withdrawals_root : WithdrawalsRoots]

ConsensusOk == [tag |-> "Ok", reason |-> "none"]
ConsensusErr(reason) == [tag |-> "Err", reason |-> reason]
ConsensusPanic == [tag |-> "panic", reason |-> "none"]

validate_header_extra_field_vanity_only(extra_bytes) ==
    IF extra_bytes < EXTRA_VANITY_LENGTH
    THEN [ok |-> FALSE, err |-> "missing vanity in extra data"]
    ELSE [ok |-> TRUE, err |-> "none"]

\* Result<(), String> for extra data of extra_bytes bytes.
validate_header_extra_field(extra_bytes) ==
    IF extra_bytes < EXTRA_VANITY_LENGTH
    THEN [ok |-> FALSE, err |-> "missing vanity in extra data"]
    ELSE IF extra_bytes < EXTRA_VANITY_LENGTH + EXTRA_SEAL_LENGTH
    THEN [ok |-> FALSE, err |-> "missing signature in extra data"]
    ELSE [ok |-> TRUE, err |-> "none"]

\* todo!(): the call panics.
get_validator_bytes(header) == [panic |-> TRUE, len |-> 0]

\* Ok(()).
verify_cascading_fields(header) == ConsensusOk

\* `header.gas_limit() > gas_cap`, gas_cap = u64::MAX >> 1.
exceeds_gas_cap(gas_limit) == gas_limit = "(u64::MAX >> 1) + 1"

\* The checks after the validator bytes were taken, in the code's order.
pre_execution_after_validator_bytes(header, is_sprint_end, signers_bytes) ==
    IF ~is_sprint_end /\ signers_bytes # 0
    THEN ConsensusErr("extra validators not allowed at non sprint end")
    ELSE IF is_sprint_end /\ signers_bytes % VALIDATOR_HEADER_BYTES_LENGTH # 0
    THEN ConsensusErr("invalid span validators")
    ELSE IF header.mix_hash # "None"
    THEN ConsensusErr("non zero mix digest")
    ELSE IF header.ommers_hash # "keccak256([])"
    THEN ConsensusErr("invalid uncle hash")
    ELSE IF header.number > 0 /\ header.difficulty = 0
    THEN ConsensusErr("invalid difficulty")
    ELSE IF exceeds_gas_cap(header.gas_limit)
    THEN ConsensusErr("invalid gasLimit")
    ELSE IF header.withdrawals_root # "None"
    THEN ConsensusErr("unexpected withdrawals")
    ELSE verify_cascading_fields(header)

\* Result<(), ConsensusError>, or the panic of a call it makes.
validate_block_pre_execution(table, header, current_time) ==
    IF header.timestamp > current_time
    THEN ConsensusErr("block is from the future")
    ELSE IF ~validate_header_extra_field(header.extra_data).ok
    THEN ConsensusErr(validate_header_extra_field(header.extra_data).err)
    ELSE LET is_sprint_end == is_sprint_start(table, header.number + 1)
             signers == get_validator_bytes(header)
         IN  IF is_sprint_end.panic \/ signers.panic THEN ConsensusPanic
             ELSE pre_execution_after_validator_bytes(header, is_sprint_end.value,
                                                      signers.len)

\* A call of validate_block_pre_execution on a block's header.
call_validate_block_pre_execution ==
    /\ consensus_call = NoCall
    /\ \E header \in Headers, current_time \in Timestamps :
          consensus_call' =
             [fn |-> "validate_block_pre_execution",
              header |-> header,
              current_time |-> current_time,
              result |-> validate_block_pre_execution(sprint, header, current_time)]
    /\ UNCHANGED <<fetch_vars, exec_vars, sprint_query, reads, unit_call>>

\* body.ommers(): None, or Some of the list of ommer headers.
Ommers ==
    {[some |-> FALSE, list |-> <<>>],
     [some |-> TRUE, list |-> <<>>],
     [some |-> TRUE, list |-> <<"ommer">>]}

Transactions == {"tx_a", "tx_b"}

Bodies == [ommers : Ommers, transactions : SeqsUpTo(Transactions, MaxTxs)]

\* The root of the ordered trie of the body's transactions: one root for
\* each list, the empty-trie root for the empty list.
calculate_tx_root(body) ==
    IF body.transactions = <<>> THEN [trie |-> "empty", of |-> <<>>]
    ELSE [trie |-> "node", of |-> body.transactions]

TransactionsRoots == {calculate_tx_root(body) : body \in Bodies}

\* Result<(), ConsensusError>
validate_body_against_header(body, transactions_root) ==
    IF body.ommers.some
    THEN ConsensusErr("ommers are not allowed in bor blocks")
    ELSE IF transactions_root # calculate_tx_root(body)
    THEN ConsensusErr("BodyTransactionRootDiff")
    ELSE ConsensusOk

\* A call of validate_body_against_header.
call_validate_body_against_header ==
    /\ consensus_call = NoCall
    /\ \E body \in Bodies, transactions_root \in TransactionsRoots :
          consensus_call' =
             [fn |-> "validate_body_against_header",
              body |-> body,
              transactions_root |-> transactions_root,
              result |-> validate_body_against_header(body, transactions_root)]
    /\ UNCHANGED <<fetch_vars, exec_vars, sprint_query, reads, unit_call>>

validate_header_against_parent_any_increase(header_number, parent_number) ==
    IF parent_number < header_number THEN ConsensusOk
    ELSE ConsensusErr("ParentBlockNumberMismatch")

\* Result<(), ConsensusError>, for the numbers of the header and of its
\* parent.
validate_header_against_parent(header_number, parent_number) ==
    IF parent_number + 1 # header_number
    THEN ConsensusErr("ParentBlockNumberMismatch")
    ELSE ConsensusOk

\* A call of validate_header_against_parent; the parent is a header of the
\* local chain.
call_validate_header_against_parent ==
    /\ consensus_call = NoCall
    /\ \E header_number \in 0..(MaxBlock + 1), parent_number \in 0..MaxBlock :
          consensus_call' =
             [fn |-> "validate_header_against_parent",
              header_number |-> header_number,
              parent_number |-> parent_number,
              result |-> validate_header_against_parent(header_number, parent_number)]
    /\ UNCHANGED <<fetch_vars, exec_vars, sprint_query, reads, unit_call>>

cumulative_gas_used_first(receipt_list) ==
    IF receipt_list = <<>> THEN 0 ELSE receipt_list[1]

\* result.receipts.last().map(|receipt| receipt.cumulative_gas_used())
\*     .unwrap_or(0)
cumulative_gas_used(receipt_list) ==
    IF receipt_list = <<>> THEN 0 ELSE receipt_list[Len(receipt_list)]

\* Result<(), ConsensusError>, for the header's gas_used and the receipts
\* of the execution result (each its cumulative_gas_used).
validate_block_post_execution(header_gas_used, receipt_list) ==
    IF header_gas_used # cumulative_gas_used(receipt_list)
    THEN ConsensusErr("BlockGasUsed")
    ELSE ConsensusOk

\* A call of validate_block_post_execution.
call_validate_block_post_execution ==
    /\ consensus_call = NoCall
    /\ \E header_gas_used \in 0..MaxGas, receipt_list \in SeqsUpTo(0..MaxGas, MaxTxs) :
          consensus_call' =
             [fn |-> "validate_block_post_execution",
              gas_used |-> header_gas_used,
              receipts |-> receipt_list,
              result |-> validate_block_post_execution(header_gas_used, receipt_list)]
    /\ UNCHANGED <<fetch_vars, exec_vars, sprint_query, reads, unit_call>>

\* BorConsensus alone, on any header and block.
InitConsensus ==
    /\ FetchInit
    /\ sprint \in SprintTables
    /\ evm = [lastStateId |-> 0, synced |-> <<>>, user |-> 0]
    /\ ExecIdle
    /\ CallInit

NextConsensus ==
    \/ call_validate_block_pre_execution
    \/ call_validate_body_against_header
    \/ call_validate_header_against_parent
    \/ call_validate_block_post_execution

\* a + b on u64: the sum when it fits; beyond u64::MAX a panic in a build
\* with overflow checks, the wrapped sum in a build without.
u64_add(a, b, overflow_checks) ==
    IF a + b <= U64_MAX THEN [panic |-> FALSE, value |-> a + b]
    ELSE IF overflow_checks THEN [panic |-> TRUE, value |-> 0]
    ELSE [panic |-> FALSE, value |-> (a + b) % (U64_MAX + 1)]

\* The two places where the successor of a block number is computed:
\* `number + 1` of validate_block_pre_execution, `parent.number() + 1` of
\* validate_header_against_parent.
SuccessorSites == {"validate_block_pre_execution", "validate_header_against_parent"}

\* The successor computed at one of the sites, for any u64 block number
\* and either build.
call_successor ==
    /\ unit_call = NoCall
    /\ \E site \in SuccessorSites, number \in 0..U64_MAX, overflow_checks \in BOOLEAN :
          unit_call' = [fn |-> "successor",
                        site |-> site,
                        number |-> number,
                        overflow_checks |-> overflow_checks,
                        result |-> u64_add(number, 1, overflow_checks)]
    /\ UNCHANGED <<fetch_vars, exec_vars, sprint_query, reads, consensus_call>>

\* The functions without state alone, on any arguments.
InitUnit ==
    /\ FetchInit
    /\ sprint = <<>>
    /\ evm = [lastStateId |-> 0, synced |-> <<>>, user |-> 0]
    /\ ExecIdle
    /\ CallInit

NextUnit ==
    \/ call_decode_last_state_id
    \/ call_cmp
    \/ call_successor

\* BorConfig alone, on any sprint table.
InitSprint ==
    /\ FetchInit
    /\ sprint \in BTreeMaps
    /\ evm = [lastStateId |-> 0, synced |-> <<>>, user |-> 0]
    /\ ExecIdle
    /\ CallInit

NextSprint == query_sprint

Next ==
    \/ new_executor
    \/ apply_pre_execution_changes
    \/ config_apply_pre_execution_changes
    \/ execute_transaction
    \/ execute_block_after_transactions
    \/ config_finish
    \/ last_state_sync_event_id
    \/ fetch_events
    \/ replay_event

Spec == Init /\ [][Next]_vars

SpecFetch == InitFetch /\ [][NextFetch]_vars

SpecSprint == InitSprint /\ [][NextSprint]_vars

SpecCursor == InitCursor /\ [][NextCursor]_vars

SpecConsensus == InitConsensus /\ [][NextConsensus]_vars

SpecUnit == InitUnit /\ [][NextUnit]_vars

InitPaging ==
    /\ PagingInit
    /\ sprint = <<>>
    /\ evm = [lastStateId |-> 0, synced |-> <<>>, user |-> 0]
    /\ ExecIdle
    /\ CallInit

SpecPaging == InitPaging /\ [][NextPaging]_vars

\* When lib_loop_served can be taken: it appends to requests, so that it
\* is enabled exactly then and never stutters.
lib_loop_served_enabled == f_pc = "lib_loop" /\ Len(requests) < MaxRequests

\* The future returned by the async fn is awaited to completion and the
\* checkpoint layer answers every request: no iteration waits for ever.
\* Weak fairness of the call and of the iteration, the latter with its
\* enabling condition written out.
SpecPagingLive ==
    /\ SpecPaging
    /\ WF_vars(lib_call)
    /\ ([]<>(~lib_loop_served_enabled) \/ []<><<lib_loop_served>>_vars)
(***************************************************************************)
(* Helpers of the properties.                                              *)
(***************************************************************************)
BlockEnded == pc \in {"done", "failed", "panicked"}

SyncSteps == {i \in DOMAIN trace : trace[i] \in {"read", "commit"}}
TxSteps == {i \in DOMAIN trace : trace[i] = "tx"}

\* The events of the commitState transactions 1..n of the block.
ReplayedEvents(n) == [i \in 1..n |-> replayed[i].event]

\* How often record r occurs in sequence s.
Count(s, r) == Cardinality({i \in DOMAIN s : s[i] = r})

RECURSIVE Concat(_)
Concat(ss) == IF ss = <<>> THEN <<>> ELSE Head(ss) \o Concat(Tail(ss))

\* The records of all the pages fetched by the call.
FetchedRecords == Concat([i \in DOMAIN pages |-> pages[i].result])

IsFullPage(resp) == resp.kind = "List" /\ Len(resp.result) = STATE_FETCH_LIMIT

(***************************************************************************)
(* Properties.                                                             *)
(***************************************************************************)

\* C1: every block whose execution got past its ordinary transactions and
\* ended ran the state-sync step exactly once when its number is a sprint
\* boundary and not at all otherwise.
C1_StateSyncOncePerSprintBlock ==
    (BlockEnded /\ txs_left = 0 /\ ~is_sprint_start(sprint, block.number).panic)
        => sync_runs = IF is_sprint_start(sprint, block.number).value THEN 1 ELSE 0

\* C2: within a block the state-sync executions (the cursor read and the
\* commitState transactions) are never interleaved with ordinary
\* transactions: every ordinary transaction is executed before all of them
\* or after all of them.
C2_NoInterleaving ==
    \/ \A t \in TxSteps, s \in SyncSteps : t < s
    \/ \A t \in TxSteps, s \in SyncSteps : t > s

\* C2 witness: a finished block that executed ordinary transactions and a
\* state sync with a commitState transaction.
C2_Witness ==
    /\ pc = "done"
    /\ TxSteps # {}
    /\ \E i \in DOMAIN trace : trace[i] = "read"
    /\ \E i \in DOMAIN trace : trace[i] = "commit"

\* C3: the commitState transactions of a block are executed in ascending
\* event-id order, whatever the order of the page answered: they are a
\* prefix of the fetched records in id order, of two of them the one with
\* the smaller id is committed first, and two with the same id are committed
\* only when the page held that id twice.
C3_ReplayAscending ==
    /\ \A i, j \in DOMAIN replayed :
          i < j =>
             /\ replayed[i].event.id <= replayed[j].event.id
             /\ replayed[i].event.id = replayed[j].event.id
                   => \E a, b \in DOMAIN FetchedRecords :
                         /\ a # b
                         /\ FetchedRecords[a].id = replayed[i].event.id
                         /\ FetchedRecords[b].id = replayed[i].event.id
    /\ \A i \in DOMAIN replayed : Count(FetchedRecords, replayed[i].event) > 0

\* C3 witness: the page answered was in descending id order and two of its
\* events were committed, the smaller id first.
C3_Witness ==
    /\ Len(replayed) >= 2
    /\ pages[1].result[1].id > pages[1].result[2].id
    /\ replayed[1].event.id < replayed[2].event.id

\* C4: the events are fetched from from_id = cursor + 1, cursor being the
\* lastStateId just read, so no event with an id <= cursor is requested or
\* replayed.
C4_FetchFromCursorPlusOne ==
    (sync_runs > 0 /\ requests # <<>>)
        => /\ requests[1].from_id = last_state_id + 1
           /\ \A i \in DOMAIN replayed : replayed[i].event.id > last_state_id

\* C5: when the replay fails at event k (its commitState execution is not a
\* success), no later event is executed, the EVM state holds the changes of
\* the events before k only, and both apply_state_sync_contract_call and
\* the block return an error.
C5_FailureStopsReplay ==
    \A k \in DOMAIN replayed :
       replayed[k].outcome # "Success" =>
          /\ k = Len(replayed)
          /\ state_sync_events # <<>>
          /\ Head(state_sync_events) = replayed[k].event
          /\ evm.synced = evm_sync0.synced \o ReplayedEvents(k - 1)
          /\ evm.lastStateId =
                IF k = 1 THEN evm_sync0.lastStateId ELSE replayed[k - 1].event.id
          /\ sync_result = "Err"
          /\ pc = "failed"
          /\ block_result = "Err"

\* C5 witness: the replay failed at an event with a later event of the list
\* still to replay.
C5_Witness ==
    /\ replayed # <<>>
    /\ replayed[Len(replayed)].outcome \in {"Revert", "Halt", "Error"}
    /\ Len(state_sync_events) >= 2
    /\ pc = "failed"

\* C6: when the state-sync step fails, the changes of the events of the
\* block already replayed are not left applied to the EVM state.
C6_NoPartialRelay ==
    sync_result = "Err"
        => /\ evm.synced = evm_sync0.synced
           /\ evm.lastStateId = evm_sync0.lastStateId

\* C7: fetch_state_sync_events paginates: every request asks for at most
\* the page size, the i-th request starts page-size * (i - 1) after the
\* first, every page but the last was full, and the call stops after the
\* first page that is not full (short, empty, absent, HTTP 204), never
\* after a full one.
C7_Pagination ==
    f_pc = "returned" =>
       /\ \A i \in DOMAIN requests :
             /\ requests[i].limit = STATE_FETCH_LIMIT
             /\ requests[i].from_id = requests[1].from_id + STATE_FETCH_LIMIT * (i - 1)
       /\ \A i \in DOMAIN pages : i < Len(pages) => IsFullPage(pages[i])
       /\ ~IsFullPage(pages[Len(pages)])

\* C8: the sequence returned holds the records of all the fetched pages,
\* none dropped and none added, in ascending id order.
C8_SortedConcatenation ==
    (f_pc = "returned" /\ fetch_result.tag = "Ok") =>
       LET out == fetch_result.events IN
       /\ Len(out) = Len(FetchedRecords)
       /\ \A i \in DOMAIN FetchedRecords :
             Count(out, FetchedRecords[i]) = Count(FetchedRecords, FetchedRecords[i])
       /\ \A i, j \in DOMAIN out : i < j => out[i].id <= out[j].id

\* C8 witness: two pages were fetched, the first not in ascending order and
\* the second holding an id smaller than one of the first.
C8_Witness ==
    /\ f_pc = "returned"
    /\ fetch_result.tag = "Ok"
    /\ Len(pages) = 2
    /\ pages[1].result[1].id > pages[1].result[2].id
    /\ pages[2].kind = "List"
    /\ Len(pages[2].result) = 1
    /\ pages[2].result[1].id < pages[1].result[1].id
    /\ Len(fetch_result.events) = STATE_FETCH_LIMIT + 1

\* C9: an answer of HTTP 204, an absent result or an empty list makes the
\* call return Ok with the records collected so far, never an error.
C9_NoDataIsSuccess ==
    (f_pc = "returned"
       /\ \/ pages[Len(pages)].kind \in {"NoContent", "Null"}
          \/ pages[Len(pages)].kind = "List" /\ pages[Len(pages)].result = <<>>)
        => /\ fetch_result.tag = "Ok"
           /\ Len(fetch_result.events) = Len(FetchedRecords)

ApplicableKeys(b) == {k \in DOMAIN sprint : k <= b}

SetMax(S) == CHOOSE x \in S : \A y \in S : x >= y

\* C11: sprint_number(b) returns the value stored at the greatest key of
\* the table that is <= b, and an error exactly when the table has no key
\* <= b.
C11_GreatestKeyLookup ==
    sprint_query.fn = "sprint" =>
       LET b == sprint_query.block_number
           r == sprint_query.sprint_number
       IN  IF ApplicableKeys(b) = {} THEN ~r.ok
           ELSE r.ok /\ r.value = sprint[SetMax(ApplicableKeys(b))]

\* C12: for a block number b with an applicable sprint length s,
\* is_sprint_start(b) returns a boolean, true exactly when b mod s = 0,
\* s being the length in force at b itself.
C12_SprintStartIffMultiple ==
    (sprint_query.fn = "sprint" /\ sprint_query.sprint_number.ok) =>
       LET b == sprint_query.block_number
           s == sprint[SetMax(ApplicableKeys(b))]
       IN  /\ s = sprint_query.sprint_number.value
           /\ ~sprint_query.is_sprint_start.panic
           /\ sprint_query.is_sprint_start.value = (b % s = 0)

\* C12 witness: a table of two entries, a block under the second entry that
\* is a multiple of the second length and not of the first.
C12_Witness ==
    /\ sprint_query.fn = "sprint"
    /\ Cardinality(DOMAIN sprint) = 2
    /\ LET b == sprint_query.block_number
           first == sprint[SetMin(DOMAIN sprint)]
       IN  /\ b >= SetMax(DOMAIN sprint)
           /\ first > 0
           /\ b % first # 0
           /\ sprint_query.is_sprint_start.value
           /\ ~sprint_query.is_sprint_start.panic

\* C13: the cursor read changes nothing of the EVM state, and two reads
\* with no committed commitState transaction between them return the same
\* value.
C13_CursorReadIdempotent ==
    /\ \A i \in DOMAIN reads : reads[i].after = reads[i].before
    /\ \A i, j \in DOMAIN reads :
          (i < j /\ reads[i].result.ok /\ reads[j].result.ok
                 /\ Len(reads[j].before.synced) = Len(reads[i].before.synced))
             => reads[i].result.value = reads[j].result.value

\* C13 witness: two reads without a commitState between them returned the
\* cursor a commitState had set, and a read before that commitState
\* returned another value.
C13_Witness ==
    /\ Len(reads) = 3
    /\ \A i \in 1..3 : reads[i].result.ok
    /\ reads[1].before.synced = <<>>
    /\ Len(reads[2].before.synced) = 1
    /\ Len(reads[3].before.synced) = 1
    /\ reads[2].result.value = reads[3].result.value
    /\ reads[1].result.value # reads[2].result.value

PreCall == consensus_call.fn = "validate_block_pre_execution"

\* The validator bytes of a header: extra data is laid out as vanity,
\* validator bytes, seal.
ValidatorBytes(header) ==
    header.extra_data - EXTRA_VANITY_LENGTH - EXTRA_SEAL_LENGTH

\* C14: validate_block_pre_execution rejects a header whose extra data is
\* shorter than the vanity (missing vanity) or holds the vanity and is
\* shorter than vanity + seal (missing signature), the reason being that of
\* the extra-data check unless the timestamp check before it fired; longer
\* extra data passes the check.
C14_ExtraDataLength ==
    PreCall =>
       LET h == consensus_call.header
           r == consensus_call.result
           in_time == h.timestamp <= consensus_call.current_time
       IN  /\ h.extra_data < EXTRA_VANITY_LENGTH
                => /\ r.tag = "Err"
                   /\ in_time => r.reason = "missing vanity in extra data"
           /\ (h.extra_data >= EXTRA_VANITY_LENGTH
                  /\ h.extra_data < EXTRA_VANITY_LENGTH + EXTRA_SEAL_LENGTH)
                => /\ r.tag = "Err"
                   /\ in_time => r.reason = "missing signature in extra data"
           /\ h.extra_data >= EXTRA_VANITY_LENGTH + EXTRA_SEAL_LENGTH
                => r.reason \notin {"missing vanity in extra data",
                                    "missing signature in extra data"}

\* C14 witness: a header in time whose extra data holds the vanity and not
\* the whole seal was rejected for its missing signature.
C14_Witness ==
    /\ PreCall
    /\ consensus_call.header.timestamp <= consensus_call.current_time
    /\ consensus_call.header.extra_data = EXTRA_VANITY_LENGTH + EXTRA_SEAL_LENGTH - 1
    /\ consensus_call.result = ConsensusErr("missing signature in extra data")

\* C15: for a header that passed the timestamp and extra-data checks, with
\* a sprint entry for block n + 1: when n + 1 is no sprint boundary and the
\* validator bytes are not empty the block is rejected; when n + 1 is a
\* boundary and their length is no multiple of the record size the block
\* is rejected; otherwise validation goes on to the next check.
C15_ValidatorBytesRule ==
    (PreCall
       /\ consensus_call.header.timestamp <= consensus_call.current_time
       /\ validate_header_extra_field(consensus_call.header.extra_data).ok
       /\ sprint_number(sprint, consensus_call.header.number + 1).ok) =>
       LET h == consensus_call.header
           r == consensus_call.result
           s == sprint_number(sprint, h.number + 1).value
           boundary == (h.number + 1) % s = 0
       IN  IF ~boundary /\ ValidatorBytes(h) # 0
           THEN r = ConsensusErr("extra validators not allowed at non sprint end")
           ELSE IF boundary /\ ValidatorBytes(h) % VALIDATOR_HEADER_BYTES_LENGTH # 0
           THEN r = ConsensusErr("invalid span validators")
           ELSE /\ r.tag # "panic"
                /\ r.reason \notin {"extra validators not allowed at non sprint end",
                                    "invalid span validators"}

\* The checks of validate_block_pre_execution other than the difficulty
\* rule are satisfied by the header.
OtherPreChecksPass(h, current_time) ==
    /\ h.timestamp <= current_time
    /\ h.extra_data >= EXTRA_VANITY_LENGTH + EXTRA_SEAL_LENGTH
    /\ sprint_number(sprint, h.number + 1).ok
    /\ LET boundary == (h.number + 1) % sprint_number(sprint, h.number + 1).value = 0
       IN  IF boundary THEN ValidatorBytes(h) % VALIDATOR_HEADER_BYTES_LENGTH = 0
           ELSE ValidatorBytes(h) = 0
    /\ h.mix_hash = "None"
    /\ h.ommers_hash = "keccak256([])"
    /\ ~exceeds_gas_cap(h.gas_limit)
    /\ h.withdrawals_root = "None"

\* C16: a block with number > 0 and zero difficulty is rejected; a genesis
\* block with zero difficulty that satisfies the other pre-execution checks
\* is accepted.
C16_DifficultyRule ==
    PreCall =>
       LET h == consensus_call.header
           r == consensus_call.result
       IN  /\ (h.number > 0 /\ h.difficulty = 0) => r.tag = "Err"
           /\ (h.number = 0 /\ h.difficulty = 0
                 /\ OtherPreChecksPass(h, consensus_call.current_time))
                => r = ConsensusOk

\* C17: validate_body_against_header rejects a body with at least one
\* ommer and a body whose recomputed transaction root differs from the
\* header's; it accepts a body without ommers (the list absent or empty)
\* whose recomputed root equals the header's.
C17_BodyAgainstHeader ==
    consensus_call.fn = "validate_body_against_header" =>
       LET body == consensus_call.body
           r == consensus_call.result
           root_equal == consensus_call.transactions_root = calculate_tx_root(body)
       IN  /\ body.ommers.list # <<>> => r.tag = "Err"
           /\ ~root_equal => r.tag = "Err"
           /\ (body.ommers.list = <<>> /\ root_equal) => r = ConsensusOk

\* C18: validate_header_against_parent accepts exactly when
\* parent.number + 1 = header.number, and rejects every gap, repeat or
\* decrease with ParentBlockNumberMismatch.
C18_ParentNumber ==
    consensus_call.fn = "validate_header_against_parent" =>
       IF consensus_call.parent_number + 1 = consensus_call.header_number
       THEN consensus_call.result = ConsensusOk
       ELSE consensus_call.result = ConsensusErr("ParentBlockNumberMismatch")

\* C18 witness: a header two above its parent was rejected.
C18_Witness ==
    /\ consensus_call.fn = "validate_header_against_parent"
    /\ consensus_call.header_number = consensus_call.parent_number + 2
    /\ consensus_call.result = ConsensusErr("ParentBlockNumberMismatch")

\* C19: validate_block_post_execution accepts exactly when the cumulative
\* gas used of the last receipt (0 without receipts) equals the header's
\* gas_used, and rejects with BlockGasUsed otherwise.
C19_PostExecutionGas ==
    consensus_call.fn = "validate_block_post_execution" =>
       LET rs == consensus_call.receipts
           last == IF rs = <<>> THEN 0 ELSE rs[Len(rs)]
       IN  IF last = consensus_call.gas_used
           THEN consensus_call.result = ConsensusOk
           ELSE consensus_call.result = ConsensusErr("BlockGasUsed")

\* C19 witness: two receipts, the header's gas_used that of the last and
\* not of the first, accepted.
C19_Witness ==
    /\ consensus_call.fn = "validate_block_post_execution"
    /\ Len(consensus_call.receipts) = 2
    /\ consensus_call.receipts[2] = consensus_call.gas_used
    /\ consensus_call.receipts[1] # consensus_call.gas_used
    /\ consensus_call.result = ConsensusOk

\* The checkpoint layer's answer was a transport or protocol failure.
IsTransportFailure(resp) == resp.kind \in {"RequestError", "Unsuccessful", "BadJson"}

\* C20: when the checkpoint layer fails during state sync (request error,
\* non-2xx status, malformed JSON), apply_state_sync_contract_call returns
\* an error, no committing system transaction is executed, and the request
\* is not issued again.
C20_TransportFailureIsError ==
    (sync_runs > 0 /\ pages # <<>> /\ IsTransportFailure(pages[Len(pages)])) =>
       /\ sync_result = "Err"
       /\ block_result = "Err"
       /\ replayed = <<>>
       /\ \A i \in DOMAIN trace : trace[i] # "commit"
       /\ evm.synced = evm_sync0.synced
       /\ \A i, j \in DOMAIN requests : requests[i] = requests[j] => i = j

\* C20 witness: the state sync of a block got a malformed body from the
\* checkpoint layer and the block failed.
C20_Witness ==
    /\ sync_runs = 1
    /\ Len(requests) = 1
    /\ Len(pages) = 1
    /\ pages[1].kind = "BadJson"
    /\ sync_result = "Err"
    /\ pc = "failed"

\* C21: every state-sync transaction handed to the EVM is a call from the
\* system address to the state-receiver contract with value 0, gas price 0,
\* nonce 0 and gas limit u64::MAX / 2, and carries the encoding of its event
\* as input, whatever the event.
C21_StateSyncTxFields ==
    \A i \in 1..Len(replayed) :
        /\ replayed[i].tx.caller = "system_address"
        /\ replayed[i].tx.kind = "Call"
        /\ replayed[i].tx.to = "state_receiver_contract"
        /\ replayed[i].tx.value = 0
        /\ replayed[i].tx.gas_price = 0
        /\ replayed[i].tx.nonce = 0
        /\ replayed[i].tx.gas_limit = "u64::MAX / 2"
        /\ replayed[i].tx.data = encode_state_sync_data(replayed[i].event).data

\* Two system transactions with different inputs were executed in one block.
C21_Witness ==
    /\ Len(replayed) = 2
    /\ replayed[1].tx.data # replayed[2].tx.data
    /\ replayed[1].tx.caller = "system_address"
    /\ replayed[2].tx.to = "state_receiver_contract"

\* The cursor read of the block's state sync returned a cursor.
CursorWasRead == Len(reads) = 1 /\ reads[1].result.ok

\* C22: once the cursor is read, the state sync goes on to the fetch with a
\* to_time: the block's timestamp less a confirmation delay when the fork is
\* active at the block, and exactly the block's timestamp when it is not.
C22_ToTime ==
    CursorWasRead =>
        /\ pc # "panicked"
        /\ IF is_spurious_dragon_active_at_block(spurious_dragon, block.number)
           THEN to_time \in 0..block.timestamp
           ELSE to_time = block.timestamp

\* The block's execution called check_and_apply_commit_span.
SpanInvoked == \E i \in 1..Len(trace) : trace[i] = "span"

\* The block's state sync reached calculate_state_delay.
DelayInvoked ==
    CursorWasRead /\ is_spurious_dragon_active_at_block(spurious_dragon, block.number)

\* C23: a block execution that reaches the span commit or the confirmation
\* delay ends with an error returned to its caller, never with a panic.
C23_StubsReturnErrors ==
    (SpanInvoked \/ DelayInvoked) => (pc = "failed" /\ block_result = "Err")

\* C24: when no key of the sprint table is <= b, is_sprint_start(b) returns
\* no boolean: the lookup fails and the failure is raised as a panic.
C24_NoEntryIsFatal ==
    (sprint_query.fn = "sprint" /\ ApplicableKeys(sprint_query.block_number) = {}) =>
        /\ ~sprint_query.sprint_number.ok
        /\ sprint_query.is_sprint_start.panic

\* C24 witness: a table whose only entries start after the queried block.
C24_Witness ==
    /\ sprint_query.fn = "sprint"
    /\ DOMAIN sprint # {}
    /\ \A k \in DOMAIN sprint : k > sprint_query.block_number /\ sprint[k] > 0
    /\ sprint_query.is_sprint_start.panic

\* The cursor read of the block's state sync failed: the call did not
\* succeed, or its return data does not decode.
CursorReadFailed ==
    /\ Len(reads) = 1
    /\ reads[1].outcome # "Success" \/ ~reads[1].output.shape_ok

\* C25: when the cursor read fails, apply_state_sync_contract_call returns
\* an error and the block fails, with no request sent to the checkpoint
\* layer, no committing transaction executed and the state left as it was.
C25_CursorReadFailureIsFatal ==
    CursorReadFailed =>
        /\ sync_result = "Err"
        /\ block_result = "Err"
        /\ pc = "failed"
        /\ requests = <<>>
        /\ pages = <<>>
        /\ replayed = <<>>
        /\ \A i \in 1..Len(trace) : trace[i] # "commit"
        /\ evm = evm_sync0

\* C25 witness: the call succeeded with return data that does not decode,
\* and the state sync ended there.
C25_Witness ==
    /\ CursorReadFailed
    /\ reads[1].outcome = "Success"
    /\ ~reads[1].output.shape_ok
    /\ sync_result = "Err"
    /\ requests = <<>>

\* The pre-execution checks as rules on the header, in the stated order:
\* the reason of the first rule the header violates, "none" when it
\* violates none.  The mix hash is set when it is non-zero; the canonical
\* empty-list hash is the hash of the encoded empty ommer list.
FirstViolatedRule(h, current_time) ==
    LET s == sprint_number(sprint, h.number + 1).value
        boundary == (h.number + 1) % s = 0
    IN  IF h.timestamp > current_time THEN "block is from the future"
        ELSE IF ~validate_header_extra_field(h.extra_data).ok
        THEN validate_header_extra_field(h.extra_data).err
        ELSE IF ~boundary /\ ValidatorBytes(h) # 0
        THEN "extra validators not allowed at non sprint end"
        ELSE IF boundary /\ ValidatorBytes(h) % VALIDATOR_HEADER_BYTES_LENGTH # 0
        THEN "invalid span validators"
        ELSE IF h.mix_hash = "Some(nonzero)" THEN "non zero mix digest"
        ELSE IF h.ommers_hash # "keccak256(rlp([]))" THEN "invalid uncle hash"
        ELSE IF h.number > 0 /\ h.difficulty = 0 THEN "invalid difficulty"
        ELSE IF exceeds_gas_cap(h.gas_limit) THEN "invalid gasLimit"
        ELSE IF h.withdrawals_root # "None" THEN "unexpected withdrawals"
        ELSE "none"

\* A call of validate_block_pre_execution under a sprint table with an
\* entry for the block after the header's.
PreCallConfigured ==
    PreCall /\ sprint_number(sprint, consensus_call.header.number + 1).ok

\* C26: validate_block_pre_execution returns the rejection reason of the
\* first check the header violates, in the order timestamp, extra data,
\* validator bytes, mix hash, ommers hash, difficulty, gas limit,
\* withdrawals root, and accepts a header that violates none.
C26_FailFastOrder ==
    PreCallConfigured =>
       LET first == FirstViolatedRule(consensus_call.header, consensus_call.current_time)
       IN  IF first = "none" THEN consensus_call.result = ConsensusOk
           ELSE consensus_call.result = ConsensusErr(first)

\* The header passes the checks made before the mix-hash check.
PassesUpToValidatorBytes(h, current_time) ==
    FirstViolatedRule(h, current_time) \notin
        {"block is from the future", "missing vanity in extra data",
         "missing signature in extra data",
         "extra validators not allowed at non sprint end", "invalid span validators"}

\* C27: a header that passes the checks before the ommers-hash check is
\* rejected with 'invalid uncle hash' exactly when its ommers hash is not
\* the hash of the encoded empty ommer list.
C27_OmmersHashRule ==
    (PreCallConfigured
       /\ PassesUpToValidatorBytes(consensus_call.header, consensus_call.current_time)
       /\ consensus_call.header.mix_hash = "None") =>
       IF consensus_call.header.ommers_hash = "keccak256(rlp([]))"
       THEN /\ consensus_call.result.tag # "panic"
            /\ consensus_call.result.reason # "invalid uncle hash"
       ELSE consensus_call.result = ConsensusErr("invalid uncle hash")

\* C28: a header that passes the checks before the mix-hash check is
\* rejected with 'non zero mix digest' exactly when its mix hash is
\* non-zero, and a header that passes every check before the withdrawals
\* check is rejected with 'unexpected withdrawals' exactly when its
\* withdrawals root is set.
C28_MixHashAndWithdrawalsRules ==
    (PreCallConfigured
       /\ PassesUpToValidatorBytes(consensus_call.header, consensus_call.current_time)) =>
       LET h == consensus_call.header
           r == consensus_call.result
           first == FirstViolatedRule(h, consensus_call.current_time)
       IN  /\ r.tag # "panic"
           /\ (r.reason = "non zero mix digest") = (h.mix_hash = "Some(nonzero)")
           /\ first \in {"none", "unexpected withdrawals"}
                => (r.reason = "unexpected withdrawals") = (h.withdrawals_root = "Some")

\* C29: each gate of the validation ends in a verdict: the pre-execution
\* gate and the post-execution gate return Ok or a rejection with a reason,
\* and a block that fails a check of a gate is rejected by it, never passed.
C29_GatesReturnVerdicts ==
    /\ PreCallConfigured =>
          /\ consensus_call.result.tag \in {"Ok", "Err"}
          /\ consensus_call.result.tag = "Err" => consensus_call.result.reason # "none"
          /\ FirstViolatedRule(consensus_call.header, consensus_call.current_time) # "none"
                => consensus_call.result.tag = "Err"
    /\ consensus_call.fn = "validate_block_post_execution" =>
          /\ consensus_call.result.tag \in {"Ok", "Err"}
          /\ consensus_call.result.tag = "Err" => consensus_call.result.reason # "none"
          /\ consensus_call.gas_used # cumulative_gas_used(consensus_call.receipts)
                => consensus_call.result.tag = "Err"

SpanSteps == {i \in DOMAIN trace : trace[i] = "span"}

\* C30: in execute_block of executor.rs the span commit is invoked exactly
\* when the transaction loop has completed and is_sprint_start(block number)
\* is true; it runs once, after every ordinary transaction and before every
\* execution of the state sync; and unless it returns Ok the state sync of
\* the block does not run and the block does not succeed.
C30_SpanCommitGating ==
    executor = "executor_rs" =>
       LET start == is_sprint_start(sprint, block.number) IN
       /\ (BlockEnded /\ txs_left = 0) =>
             (SpanInvoked <=> (~start.panic /\ start.value))
       /\ SpanInvoked =>
             /\ ~start.panic /\ start.value
             /\ txs_left = 0
             /\ Cardinality(SpanSteps) = 1
             /\ \A t \in TxSteps, s \in SpanSteps : t < s
             /\ \A s \in SpanSteps, y \in SyncSteps : s < y
       /\ (SpanInvoked /\ check_and_apply_commit_span # "Ok") =>
             /\ sync_runs = 0
             /\ SyncSteps = {}
             /\ pc \in {"failed", "panicked"}
             /\ block_result = check_and_apply_commit_span

\* C30 witness: a sprint-start block whose transactions were executed, then
\* the span commit, which did not return Ok: no state sync, the block ended
\* without success.
C30_Witness ==
    /\ executor = "executor_rs"
    /\ Cardinality(TxSteps) = MaxTxs
    /\ SpanInvoked
    /\ is_sprint_start(sprint, block.number).value
    /\ sync_runs = 0
    /\ pc = "panicked"

\* The cumulative gas of the last receipt, 0 without receipts.
LastCumulativeGas == IF receipts = <<>> THEN 0 ELSE receipts[Len(receipts)]

\* C31: the state sync adds nothing to the block's receipts and gas_used:
\* at every point of a block there is one receipt for each ordinary
\* transaction executed and none for a system transaction, and gas_used is
\* the cumulative gas of the last of these receipts.
C31_StateSyncOutsideAccounting ==
    /\ Len(receipts) = Cardinality(TxSteps)
    /\ gas_used = LastCumulativeGas

\* C31 witness: a block that ended after two system transactions and an
\* ordinary transaction, with the receipt of the ordinary transaction only.
C31_Witness ==
    /\ pc = "done"
    /\ Len(replayed) = 2
    /\ Cardinality(TxSteps) = 1
    /\ Len(receipts) = 1
    /\ gas_used = receipts[1]

\* C32: decode_last_state_id returns the uint256 of the return data as a
\* u64 when it fits, and a decode error when it does not fit or when the
\* return data is not of the shape of one uint256; it never returns a value
\* other than the one in the data.
C32_DecodeLastStateId ==
    unit_call.fn = "decode_last_state_id" =>
       LET data == unit_call.data
           r == unit_call.result
       IN  IF data.shape_ok /\ data.value <= U64_MAX
           THEN r.ok /\ r.value = data.value
           ELSE ~r.ok /\ r.err = "SolDecodeError"

\* C32 witness: well-formed return data with a value above the greatest
\* u64, refused.
C32_Witness ==
    /\ unit_call.fn = "decode_last_state_id"
    /\ unit_call.data.shape_ok
    /\ unit_call.data.value = U64_MAX + 1
    /\ ~unit_call.result.ok

\* C33: cmp orders records by id alone, and is consistent with ==: it
\* returns Equal exactly for records that are equal.
C33_CmpConsistentWithEq ==
    unit_call.fn = "cmp" =>
       /\ unit_call.a.id = unit_call.b.id => unit_call.ordering = "Equal"
       /\ (unit_call.ordering = "Equal") = unit_call.equal

\* C38: the successor of a block number, computed for the pre-execution
\* boundary check and for the parent check, is number + 1 for every u64
\* block number: the addition neither panics nor wraps.
C38_NoOverflow ==
    unit_call.fn = "successor" =>
       /\ ~unit_call.result.panic
       /\ unit_call.result.value = unit_call.number + 1

\* C37: sprint_number returns a non-zero length or an error, so that
\* is_sprint_start takes no remainder by zero: when the entry that applies
\* to the block holds 0 the lookup fails, and is_sprint_start panics on the
\* failure without computing a remainder.
C37_NoRemainderByZero ==
    sprint_query.fn = "sprint" =>
       LET b == sprint_query.block_number
           r == sprint_query.sprint_number
       IN  /\ r.ok => r.value # 0
           /\ (ApplicableKeys(b) # {} /\ sprint[SetMax(ApplicableKeys(b))] = 0) => ~r.ok
           /\ ~r.ok => sprint_query.is_sprint_start.panic

\* C37 witness: a 0 entry that overrides an earlier non-zero entry, for a
\* block under it: reported as not found.
C37_Witness ==
    /\ sprint_query.fn = "sprint"
    /\ Cardinality(ApplicableKeys(sprint_query.block_number)) = 2
    /\ sprint[SetMin(DOMAIN sprint)] # 0
    /\ sprint[SetMax(ApplicableKeys(sprint_query.block_number))] = 0
    /\ ~sprint_query.sprint_number.ok

\* C35: against a checkpoint layer that answers each request with the
\* events of the lowest ids >= from_id, up to the limit, the paginating
\* fetch returns each event id at most once.
C35_NoDuplicateIds ==
    (f_impl = "lib" /\ fetch_result.tag = "Ok") =>
       \A i, j \in 1..Len(fetch_result.events) :
          fetch_result.events[i].id = fetch_result.events[j].id => i = j

\* C36: against a checkpoint layer that holds finitely many events and
\* answers every request, the paginating fetch returns.
C36_PaginationTerminates == <>(f_pc = "returned")

\* C36 witness: a call that returned after three requests, two of them
\* answered with full pages.
C36_Witness ==
    /\ f_pc = "returned"
    /\ fetch_result.tag = "Ok"
    /\ Len(requests) = 3
    /\ Len(pages[1].result) = STATE_FETCH_LIMIT
    /\ Len(pages[2].result) = STATE_FETCH_LIMIT

RECURSIVE RecordsOfId(_, _)
\* The records of s with id i, in the order of s.
RecordsOfId(s, i) ==
    IF s = <<>> THEN <<>>
    ELSE (IF Head(s).id = i THEN <<Head(s)>> ELSE <<>>) \o RecordsOfId(Tail(s), i)

\* The records of s by ascending id, those of one id in the order of s.
ByIdInAnswerOrder(s) == Concat([i \in Ids |-> RecordsOfId(s, i)])

\* The system transactions the answer fixes: one for each of its records.
TransactionsOf(answer) ==
    [k \in 1..Len(ByIdInAnswerOrder(answer)) |->
        get_state_sync_tx(encode_state_sync_data(ByIdInAnswerOrder(answer)[k]).data)]

\* C34: what the state sync submits is a function of the cursor read, the
\* block and the answer of the checkpoint layer: the request is for the
\* cursor and the block's timestamp, and the system transactions executed
\* are, in order, those of the answer's records by ascending id, records of
\* one id in the order of the answer -- all of them when the state sync
\* succeeds, a prefix when it stops on a failure.
C34_ReplayDeterministic ==
    (f_impl = "client" /\ CursorWasRead /\ Len(pages) = 1) =>
       LET expected == TransactionsOf(pages[1].result)
           submitted == [k \in 1..Len(replayed) |-> replayed[k].tx]
       IN  /\ requests = <<Request(reads[1].result.value, block.timestamp)>>
           /\ Len(submitted) <= Len(expected)
           /\ submitted = SubSeq(expected, 1, Len(submitted))
           /\ sync_result = "Ok" => submitted = expected

\* C34 witness: the answer held two different records of one id; the one
\* answered first was submitted first.
C34_Witness ==
    /\ f_impl = "client" /\ CursorWasRead /\ Len(pages) = 1
    /\ Len(pages[1].result) = 2
    /\ pages[1].result[1].id = pages[1].result[2].id
    /\ pages[1].result[1] # pages[1].result[2]
    /\ Len(replayed) = 1
    /\ replayed[1].event = pages[1].result[1]

\* The accounting of the executor at rest: gas_used is the cumulative gas of
\* the last receipt, the receipts' cumulative gas increases, and gas_used
\* is within the block gas limit.
GasAccounted ==
    /\ gas_used = LastCumulativeGas
    /\ gas_used <= block.gas_limit
    /\ \A i \in 1..Len(receipts) :
          receipts[i] > (IF i = 1 THEN 0 ELSE receipts[i - 1])

\* One call of execute_transaction_with_result_closure: a transaction whose
\* gas limit exceeds the gas left in the block is rejected with
\* TransactionGasLimitMoreThanAvailableBlockGas; a rejected or failed
\* transaction leaves receipts, gas_used and the EVM state as they were; an
\* accepted one adds the gas it used, at most its gas limit, to gas_used and
\* appends the receipt with the new cumulative gas.
TransactionAccounted ==
    (pc = "txs" /\ txs_left > 0) =>
       LET block_available_gas == block.gas_limit - gas_used IN
       /\ last_tx'.gas_limit > block_available_gas
             => last_tx'.result = "TransactionGasLimitMoreThanAvailableBlockGas"
       /\ last_tx'.result # "Ok"
             => /\ block_result' = "Err"
                /\ UNCHANGED <<receipts, gas_used, evm>>
       /\ last_tx'.result = "Ok"
             => /\ last_tx'.gas_used <= last_tx'.gas_limit
                /\ gas_used' = gas_used + last_tx'.gas_used
                /\ receipts' = Append(receipts, gas_used')

\* C39: after any sequence of transactions gas_used is the sum of the gas
\* used by the accepted ones, is the cumulative gas of the last receipt (0
\* without receipts) and is within the block gas limit; a transaction whose
\* gas limit exceeds the gas left is rejected and changes nothing.
C39_GasAccounting == []GasAccounted /\ [][TransactionAccounted]_vars

\* C39 witness: after an accepted transaction, one whose gas limit exceeds
\* the gas left in the block was rejected.
C39_Witness ==
    /\ last_tx.result = "TransactionGasLimitMoreThanAvailableBlockGas"
    /\ Len(receipts) = 1
    /\ gas_used = receipts[1]
    /\ last_tx.gas_limit > block.gas_limit - gas_used
    /\ pc = "failed"

====
